---- MODULE Spec2Model ----
(***************************************************************************)
(* Model of the question-array utilities (renameQuestionById,              *)
(* changeQuestionTypeById, editOption, duplicateQuestionInArray, ...) and  *)
(* of the TwoDice and CycleHoliday widgets.                                *)
(*                                                                         *)
(* JavaScript arrays and objects are reference values, so the utilities    *)
(* run over an explicit heap: `arrays` holds the Question[] values,        *)
(* `objects` the Question records and `options` the string[] values; a     *)
(* reference is the index of the value in its heap.  A record is a         *)
(* function from field names to values, so an object that lacks a field    *)
(* (the spread of undefined) is a function with a smaller domain.          *)
(***************************************************************************)
EXTENDS Integers, Sequences, FiniteSets, TLC

VARIABLES
    given,          \* the Question[] argument, as a value (never changes)
    arrays,         \* heap of Question[]  : Seq(Seq(object reference))
    objects,        \* heap of Question    : Seq(record, `options` a reference)
    options,        \* heap of string[]    : Seq(Seq(STRING))
    questions,      \* the reference passed as the `questions` parameter
    call,           \* the utility that ran and its scalar arguments
    ret,            \* what the call produced: a value or a thrown error
    dice1,          \* TwoDice: left die
    dice2,          \* TwoDice: right die
    currentHoliday  \* CycleHoliday: the holiday on display

qvars == <<given, arrays, objects, options, questions, call, ret>>
wvars == <<dice1, dice2, currentHoliday>>
vars == <<given, arrays, objects, options, questions, call, ret,
          dice1, dice2, currentHoliday>>

----------------------------------------------------------------------------
(* Bounds *)

MaxLen == 3         \* longest Question[] argument
MaxId == 3          \* ids of the argument's questions are 1..MaxId
MaxOpts == 2        \* length of a filled options list of an argument
MaxPoints == 2      \* points of an argument's question are -1..MaxPoints

Ids == 1 .. MaxId
TargetIds == 1 .. (MaxId + 1)       \* MaxId + 1 is never an id of the argument
NewIds == {1, MaxId + 1}            \* an id that may be taken, one that is not
QuestionTypes == {"multiple_choice_question", "short_answer_question"}
NewNames == {"R"}
NewOptionValues == {"y"}
OptionIndexes == -1 .. MaxOpts

\* an argument's question has no options or MaxOpts of them
OptionLists ==
    {<<>>, [i \in 1 .. MaxOpts |-> IF i = 1 THEN "x" ELSE "z"]}

----------------------------------------------------------------------------
(* JavaScript values *)

Undefined == 0                      \* no reference: `undefined`
EmptyObject == [f \in {} |-> 0]     \* {}
Hole == "<empty item>"              \* an array slot that was never written

Heap == [arrays |-> arrays, objects |-> objects, options |-> options]

NewArray(H, elems) ==
    [H |-> [H EXCEPT !.arrays = Append(@, elems)], ref |-> Len(H.arrays) + 1]
NewObject(H, obj) ==
    [H |-> [H EXCEPT !.objects = Append(@, obj)], ref |-> Len(H.objects) + 1]
NewOptions(H, strs) ==
    [H |-> [H EXCEPT !.options = Append(@, strs)], ref |-> Len(H.options) + 1]

\* { ...base, <over> }: the fields of `over` win; spreading undefined adds nothing
Spread(H, base, over) ==
    over @@ (IF base = Undefined THEN EmptyObject ELSE H.objects[base])

\* arr[i] with a 0-based index; undefined out of range
At(elems, i) ==
    IF i >= 0 /\ i < Len(elems) THEN elems[i + 1] ELSE Undefined

\* Array.prototype.slice(start, end) on the elements, 0-based, negative
\* indexes counted from the end
RelIndex(len, k) ==
    IF k < 0 THEN (IF len + k < 0 THEN 0 ELSE len + k)
    ELSE (IF k > len THEN len ELSE k)
slice(elems, start, end) ==
    LET from == RelIndex(Len(elems), start)
        to == RelIndex(Len(elems), end)
    IN IF from >= to THEN <<>> ELSE SubSeq(elems, from + 1, to)
sliceFrom(elems, start) == slice(elems, start, Len(elems))

\* Array.prototype.filter; keep[q] is the callback's answer for element q
filter(elems, keep) ==
    LET kept[i \in 0 .. Len(elems)] ==
            IF i = 0 THEN <<>>
            ELSE kept[i - 1] \o (IF keep[elems[i]] THEN <<elems[i]>> ELSE <<>>)
    IN kept[Len(elems)]

\* Array.prototype.findIndex: 0-based index of the first element the
\* callback accepts (test[q] is its answer for element q), -1 if none
findIndex(elems, test) ==
    IF \E i \in 1 .. Len(elems) : test[elems[i]]
    THEN (CHOOSE i \in 1 .. Len(elems) :
              test[elems[i]] /\ \A j \in 1 .. (i - 1) : ~test[elems[j]]) - 1
    ELSE -1

\* the callback (question) => question.id === id, on every question
HasId(H, id) == [q \in DOMAIN H.objects |-> H.objects[q].id = id]

\* arr[i] = v on a string[]: writes the slot, growing the array over holes
SetIndex(strs, i, v) ==
    IF i < 0 THEN strs
    ELSE [k \in 1 .. (IF i + 1 > Len(strs) THEN i + 1 ELSE Len(strs)) |->
             IF k = i + 1 THEN v
             ELSE IF k <= Len(strs) THEN strs[k] ELSE Hole]

Value(kind, val, H) == [H |-> H, ret |-> [kind |-> kind, val |-> val]]
Throw(H) == [H |-> H, ret |-> [kind |-> "throw", val |-> "TypeError"]]

----------------------------------------------------------------------------
(* Question-array utilities *)

getPublishedQuestions(H, qs) ==
    LET result == NewArray(H, filter(H.arrays[qs],
                                     [q \in DOMAIN H.objects |->
                                         H.objects[q].published]))
    IN Value("questions", result.ref, result.H)

getNonEmptyQuestions(H, qs) ==
    LET result ==
            NewArray(H, filter(H.arrays[qs],
                               [q \in DOMAIN H.objects |->
                                   \/ H.objects[q].body # ""
                                   \/ H.objects[q].expected # ""
                                   \/ Len(H.options[H.objects[q].options]) # 0]))
    IN Value("questions", result.ref, result.H)

\* questions.find(...) || null: the first match, null when there is none
findQuestion(H, qs, id) ==
    LET found == findIndex(H.arrays[qs], HasId(H, id))
    IN IF found = -1 THEN Value("null", 0, H)
       ELSE Value("question", At(H.arrays[qs], found), H)

\* removeQuestion keeping the questions it should drop
removeQuestion_keepsMatches(H, qs, id) ==
    LET result == NewArray(H, filter(H.arrays[qs], HasId(H, id)))
    IN Value("questions", result.ref, result.H)

removeQuestion(H, qs, id) ==
    LET result == NewArray(H, filter(H.arrays[qs],
                                     [q \in DOMAIN H.objects |->
                                         H.objects[q].id # id]))
    IN Value("questions", result.ref, result.H)

\* the arrays `names` held before the last one are unreachable; only the
\* returned one is kept on the heap
getNames(H, qs) ==
    LET elems == H.arrays[qs]
        names[i \in 0 .. Len(elems)] ==
            IF i = 0 THEN <<>>
            ELSE Append(names[i - 1], H.objects[elems[i]].name)
        result == NewOptions(H, names[Len(elems)])
    IN Value("strings", result.ref, result.H)

sumPoints(H, qs) ==
    LET elems == H.arrays[qs]
        total[i \in 0 .. Len(elems)] ==
            IF i = 0 THEN 0
            ELSE total[i - 1] + H.objects[elems[i]].points
    IN Value("number", total[Len(elems)], H)

\* sumPublishedPoints without the test of `published`
sumPublishedPoints_everyQuestion(H, qs) ==
    LET elems == H.arrays[qs]
        total[i \in 0 .. Len(elems)] ==
            IF i = 0 THEN 0
            ELSE total[i - 1] + H.objects[elems[i]].points
    IN Value("number", total[Len(elems)], H)

sumPublishedPoints(H, qs) ==
    LET elems == H.arrays[qs]
        total[i \in 0 .. Len(elems)] ==
            IF i = 0 THEN 0
            ELSE IF H.objects[elems[i]].published
                 THEN total[i - 1] + H.objects[elems[i]].points
                 ELSE total[i - 1]
    IN Value("number", total[Len(elems)], H)

\* the text is kept as its lines, a line as its comma-separated fields
CsvHeader == <<"id", "name", "options", "points", "published">>
toCSV(H, qs) ==
    LET elems == H.arrays[qs]
        csv[i \in 0 .. Len(elems)] ==
            IF i = 0 THEN <<CsvHeader>>
            ELSE LET question == H.objects[elems[i]]
                 IN Append(csv[i - 1],
                           <<question.id, question.name,
                             Len(H.options[question.options]),
                             question.points, question.published>>)
    IN Value("csv", csv[Len(elems)], H)

makeAnswers(H, qs) ==
    LET elems == H.arrays[qs]
        answers[i \in 0 .. Len(elems)] ==
            IF i = 0 THEN <<>>
            ELSE Append(answers[i - 1],
                        [questionId |-> H.objects[elems[i]].id, text |-> "",
                         submitted |-> FALSE, correct |-> FALSE])
    IN Value("answers", answers[Len(elems)], H)

publishAll(H, qs) ==
    LET elems == H.arrays[qs]
        mapped[i \in 0 .. Len(elems)] ==
            IF i = 0 THEN [H |-> H, out |-> <<>>]
            ELSE LET copy == NewObject(mapped[i - 1].H,
                                       Spread(mapped[i - 1].H, elems[i],
                                              [published |-> TRUE]))
                 IN [H |-> copy.H, out |-> Append(mapped[i - 1].out, copy.ref)]
        result == NewArray(mapped[Len(elems)].H, mapped[Len(elems)].out)
    IN Value("questions", result.ref, result.H)

sameType(H, qs) ==
    LET elems == H.arrays[qs]
        currentType == H.objects[elems[1]].type
        isSame[i \in 0 .. Len(elems)] ==
            IF i = 0 THEN TRUE
            ELSE IF H.objects[elems[i]].type # currentType /\ isSame[i - 1]
                 THEN FALSE
                 ELSE isSame[i - 1]
    IN IF Len(elems) = 0 THEN Value("boolean", TRUE, H)
       ELSE Value("boolean", isSame[Len(elems)], H)

\* objects.ts is not part of the sources: a blank question has the given id,
\* name and type and nothing else filled in
makeBlankQuestion(H, id, name, type) ==
    LET none == NewOptions(H, <<>>)
    IN NewObject(none.H,
                 [id |-> id, name |-> name, type |-> type, body |-> "",
                  expected |-> "", options |-> none.ref, points |-> 1,
                  published |-> FALSE])

addNewQuestion(H, qs, id, name, type) ==
    LET blank == makeBlankQuestion(H, id, name, type)
        result == NewArray(blank.H, Append(blank.H.arrays[qs], blank.ref))
    IN Value("questions", result.ref, result.H)

\* renameQuestionById whose second half starts at the target
renameQuestionById_keepsOld(H, qs, targetId, newName) ==
    LET foundQuestion ==
            findIndex(H.arrays[qs], HasId(H, targetId))
        foundQuestionData == At(H.arrays[qs], foundQuestion)
        firstHalf == slice(H.arrays[qs], 0, foundQuestion)
        renamed == NewObject(H, Spread(H, foundQuestionData,
                                       [name |-> newName]))
        secondHalf == sliceFrom(H.arrays[qs], foundQuestion)
        result == NewArray(renamed.H,
                           (firstHalf \o <<renamed.ref>>) \o secondHalf)
    IN Value("questions", result.ref, result.H)

renameQuestionById(H, qs, targetId, newName) ==
    LET foundQuestion ==
            findIndex(H.arrays[qs], HasId(H, targetId))
        foundQuestionData == At(H.arrays[qs], foundQuestion)
        firstHalf == slice(H.arrays[qs], 0, foundQuestion)
        renamed == NewObject(H, Spread(H, foundQuestionData,
                                       [name |-> newName]))
        secondHalf == sliceFrom(H.arrays[qs], foundQuestion + 1)
        result == NewArray(renamed.H,
                           (firstHalf \o <<renamed.ref>>) \o secondHalf)
    IN Value("questions", result.ref, result.H)

\* changeQuestionTypeById that never resets the options
changeQuestionTypeById_keepsOptions(H, qs, targetId, newQuestionType) ==
    LET foundQuestion ==
            findIndex(H.arrays[qs], HasId(H, targetId))
        foundQuestionData == At(H.arrays[qs], foundQuestion)
        firstHalf == slice(H.arrays[qs], 0, foundQuestion)
        changed == NewObject(H, Spread(H, foundQuestionData,
                                       [type |-> newQuestionType]))
        secondHalf == sliceFrom(H.arrays[qs], foundQuestion + 1)
        result == NewArray(changed.H,
                           (firstHalf \o <<changed.ref>>) \o secondHalf)
    IN IF foundQuestionData = Undefined
       THEN Throw(H)
       ELSE Value("questions", result.ref, result.H)

changeQuestionTypeById(H, qs, targetId, newQuestionType) ==
    LET foundQuestion ==
            findIndex(H.arrays[qs], HasId(H, targetId))
        foundQuestionData == At(H.arrays[qs], foundQuestion)
        firstHalf == slice(H.arrays[qs], 0, foundQuestion)
        none == NewOptions(H, <<>>)
        changed ==
            IF /\ H.objects[foundQuestionData].type = "multiple_choice_question"
               /\ H.objects[foundQuestionData].type # newQuestionType
            THEN NewObject(none.H,
                           Spread(none.H, foundQuestionData,
                                  [type |-> newQuestionType,
                                   options |-> none.ref]))
            ELSE NewObject(H, Spread(H, foundQuestionData,
                                     [type |-> newQuestionType]))
        secondHalf == sliceFrom(H.arrays[qs], foundQuestion + 1)
        result == NewArray(changed.H,
                           (firstHalf \o <<changed.ref>>) \o secondHalf)
    IN IF foundQuestionData = Undefined
       THEN Throw(H)    \* foundQuestionData.type on undefined
       ELSE Value("questions", result.ref, result.H)

\* editOption that inserts at the index instead of replacing
editOption_inserts(H, qs, targetId, targetOptionIndex, newOption) ==
    LET foundQuestion ==
            findIndex(H.arrays[qs], HasId(H, targetId))
        foundQuestionData == At(H.arrays[qs], foundQuestion)
        firstHalf == slice(H.arrays[qs], 0, foundQuestion)
        old == H.options[H.objects[foundQuestionData].options]
        longer ==
            NewOptions(H, IF targetOptionIndex = -1
                          THEN Append(old, newOption)
                          ELSE (slice(old, 0, targetOptionIndex)
                                    \o <<newOption>>)
                                   \o sliceFrom(old, targetOptionIndex))
        edited == NewObject(longer.H,
                            Spread(longer.H, foundQuestionData,
                                   [options |-> longer.ref]))
        secondHalf == sliceFrom(H.arrays[qs], foundQuestion + 1)
        result == NewArray(edited.H,
                           (firstHalf \o <<edited.ref>>) \o secondHalf)
    IN IF foundQuestionData = Undefined
       THEN Throw(H)
       ELSE Value("questions", result.ref, result.H)

\* editOption that spreads the question without copying its options list
editOption_sharedOptions(H, qs, targetId, targetOptionIndex, newOption) ==
    LET foundQuestion ==
            findIndex(H.arrays[qs], HasId(H, targetId))
        foundQuestionData == At(H.arrays[qs], foundQuestion)
        firstHalf == slice(H.arrays[qs], 0, foundQuestion)
        old == H.options[H.objects[foundQuestionData].options]
        longer == NewOptions(H, Append(old, newOption))
        appended == NewObject(longer.H,
                              Spread(longer.H, foundQuestionData,
                                     [options |-> longer.ref]))
        copied == NewObject(H, Spread(H, foundQuestionData, EmptyObject))
        written == copied.H.objects[At(Append(firstHalf, copied.ref),
                                       foundQuestion)].options
        replaced ==
            [H |-> [copied.H EXCEPT
                        !.options[written] =
                            SetIndex(@, targetOptionIndex, newOption)],
             ref |-> copied.ref]
        edited == IF targetOptionIndex = -1 THEN appended ELSE replaced
        secondHalf == sliceFrom(H.arrays[qs], foundQuestion + 1)
        result == NewArray(edited.H,
                           (firstHalf \o <<edited.ref>>) \o secondHalf)
    IN IF foundQuestionData = Undefined
       THEN Throw(H)
       ELSE Value("questions", result.ref, result.H)

editOption(H, qs, targetId, targetOptionIndex, newOption) ==
    LET foundQuestion ==
            findIndex(H.arrays[qs], HasId(H, targetId))
        foundQuestionData == At(H.arrays[qs], foundQuestion)
        firstHalf == slice(H.arrays[qs], 0, foundQuestion)
        old == H.options[H.objects[foundQuestionData].options]
        \* targetOptionIndex == -1
        longer == NewOptions(H, Append(old, newOption))
        appended == NewObject(longer.H,
                              Spread(longer.H, foundQuestionData,
                                     [options |-> longer.ref]))
        \* otherwise
        same == NewOptions(H, old)
        copied == NewObject(same.H,
                            Spread(same.H, foundQuestionData,
                                   [options |-> same.ref]))
        written == copied.H.objects[At(Append(firstHalf, copied.ref),
                                       foundQuestion)].options
        replaced ==
            [H |-> [copied.H EXCEPT
                        !.options[written] =
                            SetIndex(@, targetOptionIndex, newOption)],
             ref |-> copied.ref]
        edited == IF targetOptionIndex = -1 THEN appended ELSE replaced
        secondHalf == sliceFrom(H.arrays[qs], foundQuestion + 1)
        result == NewArray(edited.H,
                           (firstHalf \o <<edited.ref>>) \o secondHalf)
    IN IF foundQuestionData = Undefined
       THEN Throw(H)    \* foundQuestionData.options on undefined
       ELSE Value("questions", result.ref, result.H)

\* objects.ts is not part of the sources: the duplicate is the old question
\* under the new id
duplicateQuestion(H, id, oldQuestion) ==
    NewObject(H, Spread(H, oldQuestion, [id |-> id]))

\* duplicateQuestionInArray that puts the duplicate before the original
duplicateQuestionInArray_duplicateFirst(H, qs, targetId, newId) ==
    LET foundQuestion ==
            findIndex(H.arrays[qs], HasId(H, targetId))
        foundQuestionData == At(H.arrays[qs], foundQuestion)
        firstHalf == slice(H.arrays[qs], 0, foundQuestion)
        original == NewObject(H, Spread(H, foundQuestionData, EmptyObject))
        duplicate == duplicateQuestion(original.H, newId, foundQuestionData)
        secondHalf == sliceFrom(H.arrays[qs], foundQuestion + 1)
        result == NewArray(duplicate.H,
                           (firstHalf \o <<duplicate.ref, original.ref>>)
                               \o secondHalf)
    IN Value("questions", result.ref, result.H)

duplicateQuestionInArray(H, qs, targetId, newId) ==
    LET foundQuestion ==
            findIndex(H.arrays[qs], HasId(H, targetId))
        foundQuestionData == At(H.arrays[qs], foundQuestion)
        firstHalf == slice(H.arrays[qs], 0, foundQuestion)
        original == NewObject(H, Spread(H, foundQuestionData, EmptyObject))
        duplicate == duplicateQuestion(original.H, newId, foundQuestionData)
        secondHalf == sliceFrom(H.arrays[qs], foundQuestion + 1)
        result == NewArray(duplicate.H,
                           (firstHalf \o <<original.ref, duplicate.ref>>)
                               \o secondHalf)
    IN Value("questions", result.ref, result.H)

----------------------------------------------------------------------------
(* Calls: one utility runs on the argument *)

Returns(op, args, out) ==
    /\ call.op = "none"
    /\ call' = [op |-> op] @@ args
    /\ arrays' = out.H.arrays
    /\ objects' = out.H.objects
    /\ options' = out.H.options
    /\ ret' = out.ret
    /\ UNCHANGED <<given, questions>>
    /\ UNCHANGED wvars

Call_getPublishedQuestions ==
    Returns("getPublishedQuestions", EmptyObject,
            getPublishedQuestions(Heap, questions))

Call_getNonEmptyQuestions ==
    Returns("getNonEmptyQuestions", EmptyObject,
            getNonEmptyQuestions(Heap, questions))

Call_findQuestion ==
    \E id \in TargetIds :
        Returns("findQuestion", [id |-> id], findQuestion(Heap, questions, id))

Call_removeQuestion ==
    \E id \in TargetIds :
        Returns("removeQuestion", [id |-> id],
                removeQuestion(Heap, questions, id))

Call_getNames == Returns("getNames", EmptyObject, getNames(Heap, questions))

Call_sumPoints == Returns("sumPoints", EmptyObject, sumPoints(Heap, questions))

Call_sumPublishedPoints ==
    Returns("sumPublishedPoints", EmptyObject,
            sumPublishedPoints(Heap, questions))

Call_toCSV == Returns("toCSV", EmptyObject, toCSV(Heap, questions))

Call_makeAnswers ==
    Returns("makeAnswers", EmptyObject, makeAnswers(Heap, questions))

Call_publishAll ==
    Returns("publishAll", EmptyObject, publishAll(Heap, questions))

Call_sameType == Returns("sameType", EmptyObject, sameType(Heap, questions))

Call_addNewQuestion ==
    \E id \in NewIds, name \in NewNames, type \in QuestionTypes :
        Returns("addNewQuestion", [id |-> id, name |-> name, type |-> type],
                addNewQuestion(Heap, questions, id, name, type))

Call_renameQuestionById ==
    \E targetId \in TargetIds, newName \in NewNames :
        Returns("renameQuestionById",
                [targetId |-> targetId, newName |-> newName],
                renameQuestionById(Heap, questions, targetId, newName))

Call_changeQuestionTypeById ==
    \E targetId \in TargetIds, newQuestionType \in QuestionTypes :
        Returns("changeQuestionTypeById",
                [targetId |-> targetId, newQuestionType |-> newQuestionType],
                changeQuestionTypeById(Heap, questions, targetId,
                                       newQuestionType))

Call_editOption ==
    \E targetId \in TargetIds, targetOptionIndex \in OptionIndexes,
       newOption \in NewOptionValues :
        Returns("editOption",
                [targetId |-> targetId,
                 targetOptionIndex |-> targetOptionIndex,
                 newOption |-> newOption],
                editOption(Heap, questions, targetId, targetOptionIndex,
                           newOption))

Call_duplicateQuestionInArray ==
    \E targetId \in TargetIds, newId \in NewIds :
        Returns("duplicateQuestionInArray",
                [targetId |-> targetId, newId |-> newId],
                duplicateQuestionInArray(Heap, questions, targetId, newId))

----------------------------------------------------------------------------
(* Widgets *)

\* resultMessage without the test for a pair of ones
resultMessage_alwaysWin == IF dice1 = dice2 THEN "Win" ELSE ""

\* TwoDice: the text rendered under the buttons ("" renders nothing)
resultMessage ==
    IF dice1 = dice2 THEN (IF dice1 = 1 THEN "Lose" ELSE "Win") ELSE ""

\* the values 1 + Math.floor(Math.random() * 6) can take
d6 == 1 .. 6

RollLeft ==
    /\ dice1' \in d6
    /\ UNCHANGED <<dice2, currentHoliday>>
    /\ UNCHANGED qvars

RollRight ==
    /\ dice2' \in d6
    /\ UNCHANGED <<dice1, currentHoliday>>
    /\ UNCHANGED qvars

alphabeticalOrder ==
    <<"Christmas", "Easter", "Halloween", "New Year", "Thanksgiving">>
yearOrder ==
    <<"New Year", "Easter", "Halloween", "Thanksgiving", "Christmas">>

\* Array.prototype.indexOf: 0-based index of the first occurrence, -1 if none
indexOf(order, current) ==
    IF \E i \in 1 .. Len(order) : order[i] = current
    THEN (CHOOSE i \in 1 .. Len(order) :
              order[i] = current /\ \A j \in 1 .. (i - 1) : order[j] # current)
         - 1
    ELSE -1

\* getNextHoliday that stops at the end of the order instead of wrapping
getNextHoliday_noWrap(current, order) ==
    LET index == indexOf(order, current)
    IN order[(IF index + 1 < Len(order) THEN index + 1 ELSE index) + 1]

getNextHoliday(current, order) ==
    LET index == indexOf(order, current)
    IN order[((index + 1) % Len(order)) + 1]

AdvanceByAlphabet ==
    /\ currentHoliday' = getNextHoliday(currentHoliday, alphabeticalOrder)
    /\ UNCHANGED <<dice1, dice2>>
    /\ UNCHANGED qvars

AdvanceByYear ==
    /\ currentHoliday' = getNextHoliday(currentHoliday, yearOrder)
    /\ UNCHANGED <<dice1, dice2>>
    /\ UNCHANGED qvars

----------------------------------------------------------------------------
(* The argument of a call *)

\* Ids are only ever compared with each other, so the ids of an argument are
\* enumerated up to renaming: the first question has id 1 and every later one
\* repeats an earlier id or takes the next unused one.  Ids may repeat:
\* nothing in the utilities enforces that they are unique.
IdVectors(n) ==
    {v \in [1 .. n -> Ids] :
        \A i \in 1 .. n :
            \/ v[i] = 1
            \/ \E j \in 1 .. (i - 1) : v[j] = v[i] \/ v[j] = v[i] - 1}

\* the arrays of at most MaxLen questions with these ids and these fields
QuestionArray(n, v, f) == [i \in 1 .. n |-> [id |-> v[i]] @@ f[i]]

\* the heap right after the caller built the argument `qs`: question i is
\* object i and owns options list i
InitHeap(qs) ==
    /\ given = qs
    /\ arrays = <<[i \in 1 .. Len(qs) |-> i]>>
    /\ objects = [i \in 1 .. Len(qs) |-> [qs[i] EXCEPT !.options = i]]
    /\ options = [i \in 1 .. Len(qs) |-> qs[i].options]
    /\ questions = 1
    /\ call = [op |-> "none"]
    /\ ret = [kind |-> "none", val |-> 0]

InitWidgets ==
    /\ dice1 = 1
    /\ dice2 = 2
    /\ currentHoliday = "New Year"

\* arguments for the utilities that look a question up or rebuild the array
UpdateFields ==
    [name : {"Q"}, type : QuestionTypes, body : {""}, expected : {""},
     options : OptionLists, points : {1}, published : {FALSE}]

\* arguments for the utilities that filter, count and sum
AggregateFields ==
    [name : {"Q"}, type : {"short_answer_question"}, body : {""},
     expected : {""}, options : {<<>>}, points : -1 .. MaxPoints,
     published : BOOLEAN]

Init ==
    /\ \E n \in 0 .. MaxLen :
           \E v \in IdVectors(n), f \in [1 .. n -> UpdateFields] :
               InitHeap(QuestionArray(n, v, f))
    /\ InitWidgets

\* the aggregates do not read the ids: question i has id i
InitAggregate ==
    /\ \E n \in 0 .. MaxLen :
           \E f \in [1 .. n -> AggregateFields] :
               InitHeap(QuestionArray(n, [i \in 1 .. n |-> i], f))
    /\ InitWidgets

InitPage ==
    /\ InitHeap(<<>>)
    /\ InitWidgets

NextAggregate ==
    \/ Call_getPublishedQuestions
    \/ Call_getNonEmptyQuestions
    \/ Call_getNames
    \/ Call_sumPoints
    \/ Call_sumPublishedPoints
    \/ Call_toCSV
    \/ Call_makeAnswers
    \/ Call_publishAll

Next ==
    \/ Call_getPublishedQuestions
    \/ Call_getNonEmptyQuestions
    \/ Call_findQuestion
    \/ Call_removeQuestion
    \/ Call_getNames
    \/ Call_sumPoints
    \/ Call_sumPublishedPoints
    \/ Call_toCSV
    \/ Call_makeAnswers
    \/ Call_publishAll
    \/ Call_sameType
    \/ Call_addNewQuestion
    \/ Call_renameQuestionById
    \/ Call_changeQuestionTypeById
    \/ Call_editOption
    \/ Call_duplicateQuestionInArray

NextPage ==
    \/ RollLeft
    \/ RollRight
    \/ AdvanceByAlphabet
    \/ AdvanceByYear

Spec == Init /\ [][Next]_vars
SpecAggregate == InitAggregate /\ [][NextAggregate]_vars
SpecPage == InitPage /\ [][NextPage]_vars

----------------------------------------------------------------------------
(* Reading a call's outcome *)

\* the array a call returned, as the references it holds
Result == arrays[ret.val]

\* a question object with its options list read out of the heap
Deep(q) ==
    IF "options" \in DOMAIN objects[q]
    THEN [objects[q] EXCEPT !.options = options[@]]
    ELSE objects[q]

\* the reference the argument held at position i when the call began
GivenRef(i) == i

TargetPresent(id) == \E i \in 1 .. Len(given) : given[i].id = id
UniqueIds ==
    \A i, j \in 1 .. Len(given) : given[i].id = given[j].id => i = j
\* position (from 1) of the first question with this id
TargetIndex(id) ==
    CHOOSE i \in 1 .. Len(given) :
        given[i].id = id /\ \A j \in 1 .. (i - 1) : given[j].id # id

\* position i of the result is the very question the argument held there
Untouched(i) == Result[i] = GivenRef(i) /\ Deep(Result[i]) = given[i]

InsertAt(seq, i, e) ==
    (SubSeq(seq, 1, i - 1) \o <<e>>) \o SubSeq(seq, i, Len(seq))

----------------------------------------------------------------------------
(* Claims *)

\* C1: with unique ids and the target present, renameQuestionById returns an
\* array of the same length and order in which the target differs from the
\* original in its name only, now newName, and every other position holds
\* the argument's own question.
C1_RenameOnlyName ==
    (call.op = "renameQuestionById" /\ UniqueIds
        /\ TargetPresent(call.targetId)) =>
        /\ ret.kind = "questions"
        /\ Len(Result) = Len(given)
        /\ \A i \in 1 .. Len(given) :
               IF given[i].id = call.targetId
               THEN Deep(Result[i]) = [given[i] EXCEPT !.name = call.newName]
               ELSE Untouched(i)

C1_Witness ==
    /\ call.op = "renameQuestionById"
    /\ UniqueIds
    /\ Len(given) = 3
    /\ given[2].id = call.targetId
    /\ ret.kind = "questions"
    /\ given[2].name # call.newName
    /\ objects[Result[2]].name = call.newName

\* C2: with the target present, changeQuestionTypeById gives the target the
\* new type, empties its options exactly when it was a multiple choice
\* question and no longer is, keeps its options otherwise, and leaves every
\* other question and the order alone.
C2_ChangeType ==
    (call.op = "changeQuestionTypeById" /\ TargetPresent(call.targetId)) =>
        /\ ret.kind = "questions"
        /\ Len(Result) = Len(given)
        /\ \A i \in 1 .. Len(given) :
               IF i = TargetIndex(call.targetId)
               THEN Deep(Result[i]) =
                        [given[i] EXCEPT
                            !.type = call.newQuestionType,
                            !.options =
                                IF /\ given[i].type = "multiple_choice_question"
                                   /\ call.newQuestionType
                                          # "multiple_choice_question"
                                THEN <<>> ELSE @]
               ELSE Untouched(i)

C2_Witness ==
    /\ call.op = "changeQuestionTypeById"
    /\ TargetPresent(call.targetId)
    /\ ret.kind = "questions"
    /\ LET t == TargetIndex(call.targetId)
       IN /\ given[t].type = "multiple_choice_question"
          /\ call.newQuestionType = "short_answer_question"
          /\ Len(given[t].options) = 2
          /\ Deep(Result[t]).options = <<>>
          /\ Deep(Result[t]).type = "short_answer_question"

\* C3: with the target present, editOption with index -1 appends newOption
\* to the target's options, with a valid index replaces exactly that option,
\* and leaves the target's other fields, the other questions and the order
\* alone.
ValidOptionIndex ==
    /\ call.targetOptionIndex >= 0
    /\ call.targetOptionIndex
           < Len(given[TargetIndex(call.targetId)].options)

C3_EditOption ==
    (/\ call.op = "editOption"
     /\ TargetPresent(call.targetId)
     /\ (call.targetOptionIndex = -1 \/ ValidOptionIndex)) =>
        /\ ret.kind = "questions"
        /\ Len(Result) = Len(given)
        /\ \A i \in 1 .. Len(given) :
               IF i = TargetIndex(call.targetId)
               THEN Deep(Result[i]) =
                        [given[i] EXCEPT
                            !.options =
                                IF call.targetOptionIndex = -1
                                THEN Append(@, call.newOption)
                                ELSE [@ EXCEPT
                                         ![call.targetOptionIndex + 1] =
                                             call.newOption]]
               ELSE Untouched(i)

C3_Witness ==
    /\ call.op = "editOption"
    /\ TargetPresent(call.targetId)
    /\ ret.kind = "questions"
    /\ call.targetOptionIndex = 0
    /\ LET t == TargetIndex(call.targetId)
       IN /\ Len(given[t].options) = 2
          /\ Deep(Result[t]).options = <<call.newOption, given[t].options[2]>>
          /\ given[t].options[1] # call.newOption

\* C4: with the target present at position i, duplicateQuestionInArray
\* returns an array one longer in which position i holds the original,
\* position i + 1 the original under the id newId, and the other questions
\* keep their order and content.
C4_Duplicate ==
    (call.op = "duplicateQuestionInArray" /\ TargetPresent(call.targetId)) =>
        LET t == TargetIndex(call.targetId)
        IN /\ ret.kind = "questions"
           /\ Len(Result) = Len(given) + 1
           /\ Deep(Result[t]) = given[t]
           /\ Deep(Result[t + 1]) = [given[t] EXCEPT !.id = call.newId]
           /\ \A i \in 1 .. Len(given) :
                  /\ i < t => Deep(Result[i]) = given[i]
                  /\ i > t => Deep(Result[i + 1]) = given[i]

C4_Witness ==
    /\ call.op = "duplicateQuestionInArray"
    /\ UniqueIds
    /\ Len(given) = 3
    /\ given[2].id = call.targetId
    /\ ~TargetPresent(call.newId)
    /\ ret.kind = "questions"
    /\ Len(Result) = 4
    /\ objects[Result[3]].id = call.newId

\* C5: when no question has the target id, renameQuestionById,
\* changeQuestionTypeById, editOption and duplicateQuestionInArray report a
\* fault instead of returning an array.
C5_NotFoundIsFault ==
    (/\ call.op \in {"renameQuestionById", "changeQuestionTypeById",
                     "editOption", "duplicateQuestionInArray"}
     /\ ~TargetPresent(call.targetId)) =>
        ret.kind = "throw"

\* C6: no utility changes its argument: after any call the argument array,
\* each question in it and each question's options list are as they were
\* when the call began.
C6_ArgumentUntouched ==
    call.op # "none" =>
        /\ Len(arrays[questions]) = Len(given)
        /\ \A i \in 1 .. Len(given) :
               /\ arrays[questions][i] = GivenRef(i)
               /\ objects[GivenRef(i)] = [given[i] EXCEPT !.options = i]
               /\ options[i] = given[i].options

C6_Witness ==
    /\ call.op = "editOption"
    /\ TargetPresent(call.targetId)
    /\ ValidOptionIndex
    /\ ret.kind = "questions"
    /\ LET t == TargetIndex(call.targetId)
       IN /\ given[t].options[call.targetOptionIndex + 1] # call.newOption
          /\ Deep(Result[t]).options[call.targetOptionIndex + 1]
                 = call.newOption
          /\ options[objects[GivenRef(t)].options] = given[t].options

\* C7 as stated: sumPublishedPoints(qs) <= sumPoints(qs) for every array,
\* with equality exactly when every question is published.
AllPublished == \A i \in 1 .. Len(given) : given[i].published
PositivePoints == \A i \in 1 .. Len(given) : given[i].points > 0
SumsRelated ==
    /\ ret.val <= sumPoints(Heap, questions).ret.val
    /\ ret.val = sumPoints(Heap, questions).ret.val <=> AllPublished

C7_Original == call.op = "sumPublishedPoints" => SumsRelated

\* C7, amended: for every array whose points are all positive,
\* sumPublishedPoints(qs) <= sumPoints(qs), with equality exactly when every
\* question is published.
C7_PositivePoints ==
    (call.op = "sumPublishedPoints" /\ PositivePoints) => SumsRelated

C7_Witness ==
    /\ call.op = "sumPublishedPoints"
    /\ PositivePoints
    /\ Len(given) = 3
    /\ given[1].published /\ ~given[2].published
    /\ ret.val > 0
    /\ ret.val < sumPoints(Heap, questions).ret.val

\* C8 as stated: for every array and every id of a question at position i,
\* putting that question back at position i of removeQuestion(questions, id)
\* gives the original array.
Reinserted ==
    \A i \in 1 .. Len(given) :
        given[i].id = call.id =>
            /\ InsertAt(Result, i, GivenRef(i)) = arrays[questions]
            /\ InsertAt([k \in 1 .. Len(Result) |-> Deep(Result[k])],
                        i, given[i]) = given

C8_Original ==
    (call.op = "removeQuestion" /\ TargetPresent(call.id)) => Reinserted

\* C8, amended: for every array with unique ids and every id of a question
\* at position i, putting that question back at position i of
\* removeQuestion(questions, id) gives the original array.
C8_UniqueIds ==
    (call.op = "removeQuestion" /\ UniqueIds /\ TargetPresent(call.id)) =>
        Reinserted

C8_Witness ==
    /\ call.op = "removeQuestion"
    /\ UniqueIds
    /\ Len(given) = 3
    /\ given[2].id = call.id
    /\ Result = <<GivenRef(1), GivenRef(3)>>

\* C9: the dice differ at the start, so no message shows; and at all times
\* each die is in 1..6, Lose shows exactly when both dice are 1, Win exactly
\* when the dice are equal and not both 1, and nothing shows when they differ.
MessageMatchesDice ==
    /\ dice1 \in 1 .. 6 /\ dice2 \in 1 .. 6
    /\ resultMessage = "Lose" <=> (dice1 = 1 /\ dice2 = 1)
    /\ resultMessage = "Win" <=> (dice1 = dice2 /\ ~(dice1 = 1 /\ dice2 = 1))
    /\ dice1 # dice2 => resultMessage = ""

C9_Messages ==
    /\ dice1 # dice2 /\ resultMessage = ""
    /\ []MessageMatchesDice

C9_Witness == dice1 = 1 /\ dice2 = 1 /\ resultMessage = "Lose"

\* C10: the holiday starts at New Year and is always one of the five; Advance
\* by Alphabet moves it to its cyclic successor in alphabetical order, Advance
\* by Year to its cyclic successor in calendar order, the last wrapping to the
\* first, so five clicks of one button lead back to the same holiday.
Holidays == {"Christmas", "Easter", "Halloween", "New Year", "Thanksgiving"}

AlphabetSuccessor ==
    [h \in Holidays |->
        CASE h = "Christmas" -> "Easter"
          [] h = "Easter" -> "Halloween"
          [] h = "Halloween" -> "New Year"
          [] h = "New Year" -> "Thanksgiving"
          [] h = "Thanksgiving" -> "Christmas"]

YearSuccessor ==
    [h \in Holidays |->
        CASE h = "New Year" -> "Easter"
          [] h = "Easter" -> "Halloween"
          [] h = "Halloween" -> "Thanksgiving"
          [] h = "Thanksgiving" -> "Christmas"
          [] h = "Christmas" -> "New Year"]

FiveClicks(order) ==
    getNextHoliday(getNextHoliday(getNextHoliday(getNextHoliday(
        getNextHoliday(currentHoliday, order), order), order), order), order)

C10_Cycles ==
    /\ currentHoliday = "New Year"
    /\ [](/\ currentHoliday \in Holidays
          /\ FiveClicks(alphabeticalOrder) = currentHoliday
          /\ FiveClicks(yearOrder) = currentHoliday)
    /\ [][/\ AdvanceByAlphabet =>
                currentHoliday' = AlphabetSuccessor[currentHoliday]
          /\ AdvanceByYear =>
                currentHoliday' = YearSuccessor[currentHoliday]]_vars

C10_Witness == currentHoliday = "Christmas" /\ dice1 = 1 /\ dice2 = 2

====
